---- MODULE Spec2Model ----
(***************************************************************************)
(* Model of yandex_disk_project/disk_api/utils.py (ResourceRequestParams,  *)
(* ResourceOperations) and of the view FileListView.get_context_data.      *)
(*                                                                         *)
(* Text is modelled as a sequence of one-character strings, so that        *)
(* slicing (value[1:]), joining and formatting are computed, not assumed.  *)
(***************************************************************************)
EXTENDS Integers, Sequences, FiniteSets, TLC

VARIABLES
    pc,               \* position of the download_files call
    files_paths,      \* argument of download_files
    idx,              \* 1-based position of the for loop in files_paths
    response,         \* <<result of requests.get(full_url)>>, line 361
    response_content, \* <<bytes of the content response>>, line 364
    err,              \* exception in flight (None when there is none)
    log,              \* records emitted through utils.logger by the call
    net,              \* HTTP requests issued by the call, in order
    status,           \* per processed list entry: "ok" or "failed"
    dirs,             \* directories that exist on the local filesystem
    disk,             \* local files: path -> <<bytes>>, or <<>> when absent
    kwargs,           \* keyword arguments given to ResourceRequestParams(...)
    params,           \* the ResourceRequestParams object
    op,               \* the operation that ran last on the listing side
    entry,            \* what the operation was given: <<params>> or <<width, height>>
    query,            \* the mapping handed to urlencode, line 320
    reply,            \* what the listing endpoint answered, line 324
    result,           \* value returned by the operation: <<>> or <<value>>
    raised,           \* exception that left the operation (None when none)
    requests,         \* number of HTTP requests the operation issued
    vlog,             \* records emitted through views.main.logger
    context           \* context["data"] of the view: <<>> or <<mapping>>

dvars == <<pc, files_paths, idx, response, response_content, err, log, net,
           status, dirs, disk>>

lvars == <<kwargs, params, op, entry, query, reply, result, raised,
           requests, vlog, context>>

vars == <<dvars, lvars>>

\* An optional value: <<>> is Python's None (or an absent file), <<v>> is v.
NoneV == <<>>
Some(v) == <<v>>

\* "no exception"
None == "None"

\* ---------------------------------------------------------------- bounds
MaxPaths == 3

\* ------------------------------------------------------------ text helpers
Sep == "/"

\* s[1:] of Python: drops the first character, "" stays "".
Slice1(s) == IF s = <<>> THEN <<>> ELSE Tail(s)

RECURSIVE LastSep(_, _)
\* index of the last "/" among the first n characters of s, 0 when none
LastSep(s, n) ==
    IF n = 0 THEN 0
    ELSE IF s[n] = Sep THEN n ELSE LastSep(s, n - 1)

\* directory part of a path (os.path.dirname)
Dirname(s) ==
    LET k == LastSep(s, Len(s))
    IN  IF k = 0 THEN <<>> ELSE IF k = 1 THEN <<Sep>> ELSE SubSeq(s, 1, k - 1)

\* os.path.join(a, b): an absolute b discards a
PathJoin(a, b) ==
    IF b # <<>> /\ Head(b) = Sep THEN b
    ELSE IF a = <<>> \/ a[Len(a)] = Sep THEN a \o b
    ELSE a \o <<Sep>> \o b

\* ------------------------------------------------------ program constants
FILES_DIR == <<"f", "i", "l", "e", "s">>

\* ------------------------------------------------------------ environment
PathA == <<"/", "a">>
PathDC == <<"/", "d", "/", "c">>
Paths == {PathA, PathDC}

\* a file of the destination directory that no listed path targets
Unrelated == FILES_DIR \o <<"/", "k", "e", "e", "p">>
OldBytes == <<9>>

\* bytes served by the signed download URL of a path
ContentOf(p) == IF p = PathA THEN <<1, 2>> ELSE <<5, 6>>

\* what the "download" endpoint can answer (line 361 / 364)
TransportError == [kind |-> "transport_error"]
MetaResponses(p) ==
    { TransportError,
      [kind |-> "body", json |-> FALSE, href |-> FALSE],   \* not decodable
      [kind |-> "body", json |-> TRUE, href |-> FALSE],    \* no 'href' key
      [kind |-> "body", json |-> TRUE, href |-> TRUE] }

\* file_local_path of line 372
LocalPath(p) == PathJoin(FILES_DIR, Slice1(p))

LocalNames == {LocalPath(p) : p \in Paths} \cup {Unrelated}

RECURSIVE SeqsUpTo(_, _)
SeqsUpTo(S, n) ==
    IF n = 0 THEN {<<>>}
    ELSE LET R == SeqsUpTo(S, n - 1)
         IN  R \cup {Append(r, x) : r \in {q \in R : Len(q) = n - 1}, x \in S}

Prefixes(b) == {SubSeq(b, 1, k) : k \in 0..(Len(b) - 1)}

\* ------------------------------------------------------------------- Init
SubDir == FILES_DIR \o <<"/", "d">>

InitDownload ==
    /\ pc = "idle"
    /\ files_paths = <<>>
    /\ idx = 0
    /\ response = NoneV
    /\ response_content = NoneV
    /\ err = None
    /\ log = <<>>
    /\ net = <<>>
    /\ status = <<>>
    /\ dirs \in {{}, {FILES_DIR}, {FILES_DIR, SubDir}}
    /\ disk \in {d \in [LocalNames -> {NoneV, Some(OldBytes)}] :
                   /\ \A n \in LocalNames :
                        d[n] # NoneV => Dirname(n) \in dirs
                   /\ \A n \in LocalNames \ {Unrelated, LocalPath(PathA)} :
                        d[n] = NoneV}


\* --------------------------------------------------------- download_files
\* end of one loop iteration: next list entry, or the function returns
Advance == IF idx + 1 > Len(files_paths) THEN "returned" ELSE "meta"

\* lines 337-354: the call, with its arguments
Call ==
    /\ UNCHANGED lvars
    /\ pc = "idle"
    /\ \E ps \in SeqsUpTo(Paths, MaxPaths) :
         /\ files_paths' = ps
         /\ idx' = IF ps = <<>> THEN 0 ELSE 1
         /\ pc' = IF ps = <<>> THEN "returned" ELSE "meta"
    /\ response' = NoneV
    /\ response_content' = NoneV
    /\ err' = None
    /\ log' = <<>>
    /\ net' = <<>>
    /\ status' = <<>>
    /\ UNCHANGED <<dirs, disk>>

\* lines 355-361: requests.get(full_url), outside of the try block
MetaRequest ==
    /\ UNCHANGED lvars
    /\ pc = "meta"
    /\ net' = Append(net, [kind |-> "meta", path |-> files_paths[idx]])
    /\ \E r \in MetaResponses(files_paths[idx]) :
         IF r = TransportError
         THEN /\ err' = "ConnectionError"
              /\ status' = Append(status, "failed")
              /\ pc' = "raised"
              /\ UNCHANGED response
         ELSE /\ response' = Some(r)
              /\ pc' = "content"
              /\ UNCHANGED <<err, status>>
    /\ UNCHANGED <<files_paths, idx, response_content, log, dirs, disk>>

\* line 364: requests.get(response.json()["href"])
ContentRequest ==
    /\ UNCHANGED lvars
    /\ pc = "content"
    /\ IF ~response[1].json
       THEN /\ err' = "JSONDecodeError"
            /\ pc' = "except"
            /\ UNCHANGED <<net, response_content>>
       ELSE IF ~response[1].href
       THEN /\ err' = "KeyError"
            /\ pc' = "except"
            /\ UNCHANGED <<net, response_content>>
       ELSE /\ net' = Append(net, [kind |-> "content", path |-> files_paths[idx]])
            /\ \/ /\ err' = "ConnectionError"
                  /\ pc' = "except"
                  /\ UNCHANGED response_content
               \/ /\ response_content' = Some(ContentOf(files_paths[idx]))
                  /\ pc' = "mkdir"
                  /\ UNCHANGED err
    /\ UNCHANGED <<files_paths, idx, response, log, status, dirs, disk>>

\* Path(...).mkdir(parents=True, exist_ok=True): the directories afterwards
MkdirDirs(ds) == ds \cup {FILES_DIR}

\* lines 367-370 as they would run with exist_ok=False: an existing
\* directory makes mkdir raise FileExistsError
Mkdir_NoExistOk ==
    /\ UNCHANGED lvars
    /\ pc = "mkdir"
    /\ \/ /\ FILES_DIR \notin dirs
          /\ dirs' = MkdirDirs(dirs)
          /\ pc' = "open"
          /\ UNCHANGED err
       \/ /\ err' = IF FILES_DIR \in dirs THEN "FileExistsError" ELSE "OSError"
          /\ pc' = "except"
          /\ UNCHANGED dirs
    /\ UNCHANGED <<files_paths, idx, response, response_content, log, net,
                   status, disk>>

\* lines 367-370 left out: the call goes on to open without creating anything
Mkdir_Skipped ==
    /\ UNCHANGED lvars
    /\ pc = "mkdir"
    /\ pc' = "open"
    /\ UNCHANGED <<files_paths, idx, response, response_content, err, log,
                   net, status, dirs, disk>>

\* lines 367-370
Mkdir ==
    /\ UNCHANGED lvars
    /\ pc = "mkdir"
    /\ \/ /\ dirs' = MkdirDirs(dirs)
          /\ pc' = "open"
          /\ UNCHANGED err
       \/ /\ FILES_DIR \notin dirs      \* creation refused by the system
          /\ err' = "OSError"
          /\ pc' = "except"
          /\ UNCHANGED dirs
    /\ UNCHANGED <<files_paths, idx, response, response_content, log, net,
                   status, disk>>

\* lines 372-373: open(file_local_path, "wb") creates or truncates the file
Open ==
    /\ UNCHANGED lvars
    /\ pc = "open"
    /\ LET lp == LocalPath(files_paths[idx])
       IN  IF Dirname(lp) \notin dirs
           THEN /\ err' = "FileNotFoundError"
                /\ pc' = "except"
                /\ UNCHANGED disk
           ELSE \/ /\ err' = "OSError"
                   /\ pc' = "except"
                   /\ UNCHANGED disk
                \/ /\ disk' = [disk EXCEPT ![lp] = Some(<<>>)]
                   /\ pc' = "write"
                   /\ UNCHANGED err
    /\ UNCHANGED <<files_paths, idx, response, response_content, log, net,
                   status, dirs>>

\* lines 374-375: f.write(response_content.content), then the info record
Write ==
    /\ UNCHANGED lvars
    /\ pc = "write"
    /\ LET lp == LocalPath(files_paths[idx])
       IN  \/ /\ disk' = [disk EXCEPT ![lp] = response_content]
              /\ log' = Append(log, [level |-> "info", path |-> files_paths[idx], i |-> idx])
              /\ status' = Append(status, "ok")
              /\ idx' = idx + 1
              /\ pc' = Advance
              /\ UNCHANGED err
           \/ \E part \in Prefixes(response_content[1]) :
              /\ disk' = [disk EXCEPT ![lp] = Some(part)]
              /\ err' = "OSError"
              /\ pc' = "except"
              /\ UNCHANGED <<log, status, idx>>
    /\ UNCHANGED <<files_paths, response, response_content, net, dirs>>

\* lines 376-377: except Exception as e: logger.error(...)
Except ==
    /\ UNCHANGED lvars
    /\ pc = "except"
    /\ log' = Append(log, [level |-> "error", path |-> files_paths[idx], i |-> idx])
    /\ status' = Append(status, "failed")
    /\ err' = None
    /\ idx' = idx + 1
    /\ pc' = Advance
    /\ UNCHANGED <<files_paths, response, response_content, net, dirs, disk>>

\* control is back at the caller, by return or by the propagating exception;
\* the locals of the call are gone, the filesystem stays
Finish ==
    /\ UNCHANGED lvars
    /\ pc \in {"returned", "raised"}
    /\ pc' = "idle"
    /\ files_paths' = <<>>
    /\ idx' = 0
    /\ response' = NoneV
    /\ response_content' = NoneV
    /\ err' = None
    /\ log' = <<>>
    /\ net' = <<>>
    /\ status' = <<>>
    /\ UNCHANGED <<dirs, disk>>

\* ------------------------------------------------------------ listing side
\* -------------------------------------------------------- bounds (listing)
MaxFields == 2

\* ------------------------------------------------- FieldOptions, 166-222
NAME == <<".", "n", "a", "m", "e">>
PATH == <<".", "p", "a", "t", "h">>
PUBLIC_URL == <<".", "p", "u", "b", "l", "i", "c", "_", "u", "r", "l">>
MEDIA_TYPE == <<".", "m", "e", "d", "i", "a", "_", "t", "y", "p", "e">>
TYPE == <<".", "t", "y", "p", "e">>
EMBEDDED == <<".", "_", "e", "m", "b", "e", "d", "d", "e", "d">>
EMBEDDED_ITEMS == EMBEDDED \o <<".", "i", "t", "e", "m", "s">>
EMBEDDED_ITEMS_NAME == EMBEDDED_ITEMS \o NAME
EMBEDDED_ITEMS_TYPE == EMBEDDED_ITEMS \o TYPE
EMBEDDED_ITEMS_MEDIA_TYPE == EMBEDDED_ITEMS \o MEDIA_TYPE
EMBEDDED_ITEMS_PUBLIC_URL == EMBEDDED_ITEMS \o PUBLIC_URL

\* a fields value is one selector or a tuple of selectors (FieldsType)
Single(f) == [tag |-> "single", value |-> f]
Tuple(fs) == [tag |-> "tuple", items |-> fs]

\* the tuple assigned at lines 310-318
DefaultFields ==
    Tuple(<<NAME, PUBLIC_URL, EMBEDDED_ITEMS_NAME, EMBEDDED_ITEMS_TYPE,
            EMBEDDED_ITEMS_MEDIA_TYPE, EMBEDDED_ITEMS_PUBLIC_URL, PATH>>)

\* line 243; the value is beyond TLC's integers, limits are kept as numerals
DefaultLimit == "1000000000000000000"

OptKeys == {"fields", "limit", "offset", "path", "preview_crop",
            "preview_size", "sort"}
Keys == OptKeys \cup {"public_key"}

\* the defaults as they would be with limit left at None like its siblings
Defaults_NullLimit ==
    [fields |-> NoneV, limit |-> NoneV, offset |-> NoneV,
     path |-> NoneV, preview_crop |-> NoneV, preview_size |-> NoneV,
     sort |-> NoneV]

\* dataclass defaults, lines 242-248
Defaults ==
    [fields |-> NoneV, limit |-> Some(DefaultLimit), offset |-> NoneV,
     path |-> NoneV, preview_crop |-> NoneV, preview_size |-> NoneV,
     sort |-> NoneV]

\* ResourceRequestParams(**kw): the generated __init__
Construct(kw) ==
    [k \in Keys |-> IF k \in DOMAIN kw THEN kw[k] ELSE Defaults[k]]

RECURSIVE JoinComma(_)
\* ",".join(parts)
JoinComma(parts) ==
    IF parts = <<>> THEN <<>>
    ELSE IF Len(parts) = 1 THEN parts[1]
    ELSE parts[1] \o <<",">> \o JoinComma(Tail(parts))

\* line 262 without the [1:] slice
FieldsCsv_NoStrip(items) == JoinComma(items)

\* line 262: ",".join(field.value[1:] for field in self.fields)
FieldsCsv(items) == JoinComma([i \in 1..Len(items) |-> Slice1(items[i])])

\* bool(v) of Python for the value v of attribute k
Truthy(k, v) ==
    IF k \in {"public_key", "path"} THEN v # <<>>
    ELSE IF k = "fields" THEN (v.tag = "tuple" => v.items # <<>>)
    ELSE IF k = "offset" THEN v # 0
    ELSE IF k = "preview_crop" THEN v
    ELSE TRUE

\* lines 260-264 with the filter written "if v" instead of "if v is not None"
prepared_dict_Truthy(p) ==
    LET kept == {k \in Keys : p[k] # NoneV /\ Truthy(k, p[k][1])}
    IN  [k \in kept |->
           IF k = "fields"
           THEN IF p.fields[1].tag = "tuple"
                THEN Some(JoinComma([i \in 1..Len(p.fields[1].items) |->
                                       Slice1(p.fields[1].items[i])]))
                ELSE Some(p.fields[1].value)
           ELSE p[k]]

\* lines 260-264 with a single selector joined like a one-element tuple
prepared_dict_AnyShape(p) ==
    LET kept == {k \in Keys : p[k] # NoneV}
    IN  [k \in kept |->
           IF k = "fields"
           THEN IF p.fields[1].tag = "tuple"
                THEN Some(FieldsCsv(p.fields[1].items))
                ELSE Some(FieldsCsv(<<p.fields[1].value>>))
           ELSE p[k]]

\* lines 260-264; every value of the mapping is kept as <<v>>
prepared_dict(p) ==
    LET kept == {k \in Keys : p[k] # NoneV}
    IN  [k \in kept |->
           IF k = "fields"
           THEN IF p.fields[1].tag = "tuple"
                THEN Some(FieldsCsv(p.fields[1].items))
                ELSE Some(p.fields[1].value)
           ELSE p[k]]

\* lines 303-318 with the test written "if not params.fields"
WithDefaultFields_Falsy(p) ==
    IF p.fields = NoneV \/ p.fields = Some([tag |-> "tuple", items |-> <<>>])
    THEN [p EXCEPT !.fields = Some(DefaultFields)]
    ELSE p

\* lines 303-318: the default selectors are stored into the caller's object
WithDefaultFields(p) ==
    IF p.fields = NoneV THEN [p EXCEPT !.fields = Some(DefaultFields)] ELSE p

\* lines 331-333 with a plain read in place of pop
RenameEmbedded_NoPop(d) ==
    IF "_embedded" \in DOMAIN d
    THEN [k \in DOMAIN d \cup {"embedded"} |->
            IF k = "embedded" THEN d["_embedded"] ELSE d[k]]
    ELSE d

\* lines 331-333
RenameEmbedded(d) ==
    IF "_embedded" \in DOMAIN d
    THEN [k \in (DOMAIN d \ {"_embedded"}) \cup {"embedded"} |->
            IF k = "embedded" THEN d["_embedded"] ELSE d[k]]
    ELSE d

\* line 324: requests.get(full_url).json(), the exception it ends with
FetchError(r) ==
    IF r.kind = "transport_error" THEN "ConnectionError"
    ELSE IF ~r.json THEN "JSONDecodeError"
    ELSE None

\* lines 289-335 with the fetch wrapped in try/except returning {}
get_public_resource_dict_Fallback(p, r) ==
    LET p1 == WithDefaultFields(p)
    IN  [params |-> p1,
         query |-> Some(prepared_dict(p1)),
         requests |-> 1,
         raised |-> None,
         result |-> IF FetchError(r) = None
                    THEN Some(RenameEmbedded(r.data)) ELSE Some(<<>>)]

\* lines 289-335 with the default selectors put into a copy of the object:
\* the query is the same, the caller's object is left as it came
get_public_resource_dict_NoStore(p, r) ==
    LET p1 == WithDefaultFields(p)
    IN  [params |-> p,
         query |-> Some(prepared_dict(p1)),
         requests |-> 1,
         raised |-> FetchError(r),
         result |-> IF FetchError(r) = None
                    THEN Some(RenameEmbedded(r.data)) ELSE NoneV]

\* lines 289-335, the whole method applied to object p and upstream reply r
get_public_resource_dict(p, r) ==
    LET p1 == WithDefaultFields(p)
    IN  [params |-> p1,
         query |-> Some(prepared_dict(p1)),
         requests |-> 1,
         raised |-> FetchError(r),
         result |-> IF FetchError(r) = None
                    THEN Some(RenameEmbedded(r.data)) ELSE NoneV]

Digit(d) ==
    CASE d = 0 -> "0" [] d = 1 -> "1" [] d = 2 -> "2" [] d = 3 -> "3"
      [] d = 4 -> "4" [] d = 5 -> "5" [] d = 6 -> "6" [] d = 7 -> "7"
      [] d = 8 -> "8" [] d = 9 -> "9"

RECURSIVE IntToStr(_)
\* f"{n}" for an int
IntToStr(n) ==
    IF n < 0 THEN <<"-">> \o IntToStr(0 - n)
    ELSE IF n < 10 THEN <<Digit(n)>>
    ELSE IntToStr(n \div 10) \o <<Digit(n % 10)>>

\* a width or height: None, an int, or a value that is not an int
IsInt(x) == x # NoneV /\ x[1].int

\* lines 144-154 without the final case: (None, None) formats as "x"
resolution_NoValidation(width, height) ==
    IF IsInt(width) /\ IsInt(height)
    THEN [raised |-> None,
          result |-> Some(IntToStr(width[1].v) \o <<"x">> \o IntToStr(height[1].v))]
    ELSE IF IsInt(width) /\ height = NoneV
    THEN [raised |-> None, result |-> Some(IntToStr(width[1].v) \o <<"x">>)]
    ELSE IF width = NoneV /\ IsInt(height)
    THEN [raised |-> None, result |-> Some(<<"x">> \o IntToStr(height[1].v))]
    ELSE IF width = NoneV /\ height = NoneV
    THEN [raised |-> None, result |-> Some(<<"x">>)]
    ELSE [raised |-> "ValueError", result |-> NoneV]

\* lines 144-154: the match statement
resolution(width, height) ==
    IF IsInt(width) /\ IsInt(height)
    THEN [raised |-> None,
          result |-> Some(IntToStr(width[1].v) \o <<"x">> \o IntToStr(height[1].v))]
    ELSE IF IsInt(width) /\ height = NoneV
    THEN [raised |-> None, result |-> Some(IntToStr(width[1].v) \o <<"x">>)]
    ELSE IF width = NoneV /\ IsInt(height)
    THEN [raised |-> None, result |-> Some(<<"x">> \o IntToStr(height[1].v))]
    ELSE [raised |-> "ValueError", result |-> NoneV]

\* ------------------------------------------------- environment (listing)
PublicKeys == {<<>>, <<"k">>}
Selectors == {NAME, EMBEDDED_ITEMS_NAME}
FieldsValues ==
    {NoneV} \cup {Some(Single(f)) : f \in Selectors}
            \cup {Some(Tuple(t)) : t \in SeqsUpTo(Selectors, MaxFields)}

\* what a caller can pass for each optional keyword
Choices ==
    [fields |-> FieldsValues,
     limit |-> {NoneV, Some("5")},
     offset |-> {Some(0)},
     path |-> {Some(<<>>)},
     preview_crop |-> {Some(FALSE)},
     preview_size |-> {Some("M")},
     sort |-> {Some("name")}]

RECURSIVE KwargsOver(_)
\* every way of supplying some of the keywords of ks
KwargsOver(ks) ==
    IF ks = {} THEN {<<>>}
    ELSE LET k == CHOOSE x \in ks : TRUE
             rest == KwargsOver(ks \ {k})
         IN  rest \cup {[j \in DOMAIN r \cup {k} |-> IF j = k THEN v ELSE r[j]] :
                          r \in rest, v \in Choices[k]}

AllKwargs ==
    {[j \in DOMAIN r \cup {"public_key"} |->
        IF j = "public_key" THEN Some(pkey) ELSE r[j]] :
       r \in KwargsOver(OptKeys), pkey \in PublicKeys}

\* bodies the listing endpoint can answer with
BodyKeys == {"_embedded", "embedded", "name"}
BodyValues(k) == IF k = "_embedded" THEN {1, 2} ELSE IF k = "embedded" THEN {2} ELSE {1}
Bodies ==
    UNION {{d \in [ks -> {1, 2}] : \A k \in ks : d[k] \in BodyValues(k)} :
             ks \in SUBSET BodyKeys}
Replies ==
    {[kind |-> "transport_error"], [kind |-> "body", json |-> FALSE]}
    \cup {[kind |-> "body", json |-> TRUE, data |-> d] : d \in Bodies}

Dimensions ==
    {NoneV, Some([int |-> FALSE, v |-> 0])}
    \cup {Some([int |-> TRUE, v |-> n]) : n \in {100, 200}}

\* ------------------------------------------------------------ Init (listing)
Idle(kw) ==
    /\ kwargs = kw
    /\ params = Construct(kw)
    /\ op = "ResourceRequestParams"
    /\ entry = NoneV
    /\ query = NoneV
    /\ reply = NoneV
    /\ result = NoneV
    /\ raised = None
    /\ requests = 0
    /\ vlog = <<>>
    /\ context = NoneV

OnlyKey == [x \in {"public_key"} |-> Some(<<"k">>)]

\* any object a caller can build, on an empty filesystem with no download
InitListing ==
    /\ InitDownload
    /\ dirs = {}
    /\ \E kw \in AllKwargs : Idle(kw)

\* ------------------------------------------------------- listing operations
\* A caller builds an object (Init), then reads prepared_dict or fetches the
\* listing with it, possibly again with the same object; the static
\* resolution helper and the view are exercised from the fresh state.
\* the caller reads params.prepared_dict
ReadPreparedDict ==
    /\ op \in {"ResourceRequestParams", "get_public_resource_dict"}
    /\ UNCHANGED dvars
    /\ op' = "prepared_dict"
    /\ result' = Some(prepared_dict(params))
    /\ entry' = NoneV
    /\ query' = NoneV
    /\ reply' = NoneV
    /\ raised' = None
    /\ requests' = 0
    /\ vlog' = <<>>
    /\ context' = NoneV
    /\ UNCHANGED <<kwargs, params>>

\* ResourceOperations().get_public_resource_dict(params)
CallGetPublicResourceDict ==
    /\ op \in {"ResourceRequestParams", "get_public_resource_dict"}
    /\ UNCHANGED dvars
    /\ \E r \in Replies :
         LET out == get_public_resource_dict(params, r)
         IN  /\ reply' = Some(r)
             /\ params' = out.params
             /\ query' = out.query
             /\ requests' = out.requests
             /\ raised' = out.raised
             /\ result' = out.result
    /\ op' = "get_public_resource_dict"
    /\ entry' = Some(params)
    /\ vlog' = <<>>
    /\ context' = NoneV
    /\ UNCHANGED kwargs

\* FileListView.get_context_data, main.py lines 108-124
GetContextData ==
    /\ op = "ResourceRequestParams"
    /\ UNCHANGED dvars
    /\ \E public_url \in PublicKeys, r \in Replies :
         LET kw == [x \in {"public_key"} |-> Some(public_url)]
             out == get_public_resource_dict(Construct(kw), r)
         IN  /\ kwargs' = kw
             /\ entry' = Some(Construct(kw))
             /\ reply' = Some(r)
             /\ params' = out.params
             /\ query' = out.query
             /\ requests' = out.requests
             /\ IF out.raised = None
                THEN /\ vlog' = <<[level |-> "info"]>>
                     /\ context' = out.result
                     /\ raised' = None
                ELSE /\ vlog' = <<[level |-> "error", e |-> out.raised]>>
                     /\ context' = NoneV
                     /\ raised' = out.raised
    /\ op' = "get_context_data"
    /\ result' = context'

\* PreviewSizeOptions.resolution(width, height)
CallResolution ==
    /\ op = "ResourceRequestParams"
    /\ UNCHANGED dvars
    /\ \E width \in Dimensions, height \in Dimensions :
         LET out == resolution(width, height)
         IN  /\ result' = out.result
             /\ raised' = out.raised
             /\ entry' = <<width, height>>
    /\ op' = "resolution"
    /\ query' = NoneV
    /\ reply' = NoneV
    /\ requests' = 0
    /\ vlog' = <<>>
    /\ context' = NoneV
    /\ UNCHANGED <<kwargs, params>>

NextListing ==
    \/ ReadPreparedDict
    \/ CallGetPublicResourceDict
    \/ GetContextData
    \/ CallResolution

\* the listing side alone
SpecListing == InitListing /\ [][NextListing]_vars


\* ------------------------------------------------------------------ specs
Next ==
    \/ Call
    \/ MetaRequest
    \/ ContentRequest
    \/ Mkdir
    \/ Open
    \/ Write
    \/ Except
    \/ Finish

Init == InitDownload /\ Idle(OnlyKey)

Spec == Init /\ [][Next]_vars

\* ------------------------------------------------------------------ claims
\* positions of the list entries after i that write to the same local file
LaterSameTarget(i) ==
    {j \in (i + 1)..Len(files_paths) :
       LocalPath(files_paths[j]) = LocalPath(files_paths[i])}

ErrorRecords(i) ==
    {k \in 1..Len(log) : log[k].level = "error" /\ log[k].i = i}

Failed == {i \in 1..Len(status) : status[i] = "failed"}

\* C1: the failure of one path never aborts the batch: download_files never
\* ends by an exception, every list entry is processed, and every entry whose
\* requests and write succeeded has its fetched bytes on disk when the call
\* ends (unless a later entry of the list targets the same file).
C1_FailureIsolation ==
    /\ pc # "raised"
    /\ pc = "returned" =>
         /\ Len(status) = Len(files_paths)
         /\ \A i \in 1..Len(status) :
              (status[i] = "ok" /\ LaterSameTarget(i) = {}) =>
                disk[LocalPath(files_paths[i])] = Some(ContentOf(files_paths[i]))

\* C2: when download_files ends, every failed list entry has exactly one
\* error record, naming its path; an entry that succeeded has none; so the
\* number of error records is the number of failed entries.
C2_OneErrorPerFailure ==
    pc \in {"returned", "raised"} =>
      /\ \A i \in 1..Len(status) :
           IF status[i] = "failed"
           THEN /\ Cardinality(ErrorRecords(i)) = 1
                /\ \A k \in ErrorRecords(i) : log[k].path = files_paths[i]
           ELSE ErrorRecords(i) = {}
      /\ Cardinality({k \in 1..Len(log) : log[k].level = "error"})
           = Cardinality(Failed)

\* C8: with the destination directory already there, the mkdir step of a
\* download_files call never fails, no directory disappears, and a step of
\* the call changes no file other than the one the current list entry
\* targets: files that were there before and are not targets stay as they are.
C8_ExistingDirectoryKept ==
    [][ /\ (pc = "mkdir" /\ FILES_DIR \in dirs) => (pc' = "open" /\ err' = None)
        /\ dirs \subseteq dirs'
        /\ \A n \in LocalNames :
             disk'[n] # disk[n] =>
               /\ pc \in {"open", "write"}
               /\ n = LocalPath(files_paths[idx]) ]_vars

\* a later call has written /d/c; the file written by an earlier call and
\* the unrelated file that was there from the start are both intact
C8_Witness ==
    /\ pc = "returned"
    /\ files_paths = <<PathDC>>
    /\ status = <<"ok">>
    /\ disk[LocalPath(PathA)] = Some(ContentOf(PathA))
    /\ disk[Unrelated] = Some(OldBytes)

RECURSIVE SplitComma(_)
\* the pieces of s between its commas, in order
SplitComma(s) ==
    IF \A i \in 1..Len(s) : s[i] # ","
    THEN <<s>>
    ELSE LET c == CHOOSE i \in 1..Len(s) :
                    s[i] = "," /\ \A j \in 1..(i - 1) : s[j] # ","
         IN  <<SubSeq(s, 1, c - 1)>> \o SplitComma(SubSeq(s, c + 1, Len(s)))

\* text s lists exactly the selectors of the tuple items, in order, each
\* without its leading "."
ListsSelectors(s, items) ==
    IF items = <<>> THEN s = <<>>
    ELSE LET pieces == SplitComma(s)
         IN  /\ Len(pieces) = Len(items)
             /\ \A i \in 1..Len(items) : <<".">> \o pieces[i] = items[i]

\* the object was built from public_key alone and get_public_resource_dict
\* has stored no selectors into it since
OnlyPublicKey == DOMAIN kwargs = {"public_key"} /\ params.fields = NoneV

\* C3 (as claimed): an object built from public_key alone has a prepared_dict
\* with public_key and none of the seven optional keys.
C3_OnlyPublicKeyOmitsAll ==
    (op = "prepared_dict" /\ OnlyPublicKey) =>
      /\ "public_key" \in DOMAIN result[1]
      /\ DOMAIN result[1] \cap OptKeys = {}

\* C3 (amended): an object built from public_key alone, and not modified
\* since, has a prepared_dict with exactly public_key, bound to the given key,
\* and limit, bound to the default 1000000000000000000; fields, offset, path,
\* preview_crop, preview_size and sort are absent.
C3_OnlyPublicKeyKeepsLimit ==
    (op = "prepared_dict" /\ OnlyPublicKey) =>
      /\ DOMAIN result[1] = {"public_key", "limit"}
      /\ result[1]["public_key"] = kwargs["public_key"]
      /\ result[1]["limit"] = Some(DefaultLimit)

C3_Witness ==
    /\ op = "prepared_dict"
    /\ OnlyPublicKey
    /\ DOMAIN result[1] = {"public_key", "limit"}

\* C4: for a non-empty tuple of selectors, prepared_dict["fields"] is the
\* selectors' paths without their leading ".", joined by commas, one piece
\* per selector and in the order of the tuple.
C4_FieldsJoinedInOrder ==
    (/\ op = "prepared_dict"
     /\ params.fields # NoneV
     /\ params.fields[1].tag = "tuple"
     /\ params.fields[1].items # <<>>) =>
      /\ "fields" \in DOMAIN result[1]
      /\ result[1]["fields"] # NoneV
      /\ ListsSelectors(result[1]["fields"][1], params.fields[1].items)

\* a two-selector tuple that is not in alphabetical order
C4_Witness ==
    /\ op = "prepared_dict"
    /\ params.fields = Some(Tuple(<<NAME, EMBEDDED_ITEMS_NAME>>))
    /\ "fields" \in DOMAIN result[1]
    /\ Len(SplitComma(result[1]["fields"][1])) = 2

\* the mapping returned for the upstream body d renames _embedded
Renamed(d, ret) ==
    /\ "embedded" \in DOMAIN ret
    /\ ret["embedded"] = d["_embedded"]
    /\ "_embedded" \notin DOMAIN ret

FetchedBody ==
    /\ op = "get_public_resource_dict"
    /\ raised = None

\* C5 (as claimed): a body with _embedded comes back with embedded bound to
\* that value, without _embedded, and with every other key and value as it
\* was; a body without _embedded comes back unchanged.
C5_RenameKeepsAllOthers ==
    FetchedBody =>
      LET d == reply[1].data
          ret == result[1]
      IN  IF "_embedded" \in DOMAIN d
          THEN /\ Renamed(d, ret)
               /\ \A k \in DOMAIN d \ {"_embedded"} :
                    k \in DOMAIN ret /\ ret[k] = d[k]
               /\ DOMAIN ret = (DOMAIN d \ {"_embedded"}) \cup {"embedded"}
          ELSE ret = d

\* C5 (amended): as claimed, except that an 'embedded' entry the body already
\* had next to '_embedded' is overwritten by the renamed value; every key
\* other than '_embedded' and 'embedded' keeps its value.
C5_RenameKeepsOthers ==
    FetchedBody =>
      LET d == reply[1].data
          ret == result[1]
      IN  IF "_embedded" \in DOMAIN d
          THEN /\ Renamed(d, ret)
               /\ \A k \in DOMAIN d \ {"_embedded", "embedded"} :
                    k \in DOMAIN ret /\ ret[k] = d[k]
               /\ DOMAIN ret = (DOMAIN d \ {"_embedded"}) \cup {"embedded"}
          ELSE ret = d

C5_Witness ==
    /\ FetchedBody
    /\ DOMAIN reply[1].data = {"_embedded", "name"}
    /\ DOMAIN result[1] = {"embedded", "name"}

\* the listing endpoint did not deliver a decodable body
FetchFailed ==
    /\ reply # NoneV
    /\ (reply[1].kind = "transport_error" \/ ~reply[1].json)

\* C6: a transport or decoding error of the listing fetch leaves
\* get_public_resource_dict as an exception, after the single request and
\* with nothing returned; get_context_data then logs one error record and
\* ends by the same exception, with no listing in the context.
C6_ListingErrorsPropagate ==
    /\ (op = "get_public_resource_dict" /\ FetchFailed) =>
         /\ raised = (IF reply[1].kind = "transport_error"
                      THEN "ConnectionError" ELSE "JSONDecodeError")
         /\ result = NoneV
         /\ requests = 1
    /\ (op = "get_context_data" /\ FetchFailed) =>
         /\ raised = (IF reply[1].kind = "transport_error"
                      THEN "ConnectionError" ELSE "JSONDecodeError")
         /\ vlog = <<[level |-> "error", e |-> raised]>>
         /\ context = NoneV
         /\ requests = 1

C6_Witness ==
    /\ op = "get_context_data"
    /\ FetchFailed
    /\ raised = "JSONDecodeError"
    /\ Len(vlog) = 1

\* C7: resolution gives "<w>x<h>" for two ints, "<w>x" for a width alone,
\* "x<h>" for a height alone, and raises ValueError when neither is given;
\* it issues no HTTP request.
C7_Resolution ==
    op = "resolution" =>
      LET w == entry[1]
          h == entry[2]
          W100 == Some([int |-> TRUE, v |-> 100])
          H200 == Some([int |-> TRUE, v |-> 200])
      IN  /\ requests = 0
          /\ (IsInt(w) /\ IsInt(h)) =>
               /\ raised = None
               /\ result = Some(IntToStr(w[1].v) \o <<"x">> \o IntToStr(h[1].v))
          /\ (IsInt(w) /\ h = NoneV) =>
               /\ raised = None
               /\ result = Some(IntToStr(w[1].v) \o <<"x">>)
          /\ (w = NoneV /\ IsInt(h)) =>
               /\ raised = None
               /\ result = Some(<<"x">> \o IntToStr(h[1].v))
          /\ (w = NoneV /\ h = NoneV) =>
               /\ raised = "ValueError"
               /\ result = NoneV
          /\ (w = W100 /\ h = NoneV) => result = Some(<<"1", "0", "0", "x">>)
          /\ (w = NoneV /\ h = H200) => result = Some(<<"x", "2", "0", "0">>)
          /\ (w = W100 /\ h = H200) =>
               result = Some(<<"1", "0", "0", "x", "2", "0", "0">>)

C7_Witness ==
    /\ op = "resolution"
    /\ entry = <<NoneV, NoneV>>
    /\ raised = "ValueError"

\* the default selectors as they travel in the query
DefaultCsv ==
    <<"n", "a", "m", "e", ",", "p", "u", "b", "l", "i", "c", "_",
      "u", "r", "l", ",", "_", "e", "m", "b", "e", "d", "d", "e",
      "d", ".", "i", "t", "e", "m", "s", ".", "n", "a", "m", "e",
      ",", "_", "e", "m", "b", "e", "d", "d", "e", "d", ".", "i",
      "t", "e", "m", "s", ".", "t", "y", "p", "e", ",", "_", "e",
      "m", "b", "e", "d", "d", "e", "d", ".", "i", "t", "e", "m",
      "s", ".", "m", "e", "d", "i", "a", "_", "t", "y", "p", "e",
      ",", "_", "e", "m", "b", "e", "d", "d", "e", "d", ".", "i",
      "t", "e", "m", "s", ".", "p", "u", "b", "l", "i", "c", "_",
      "u", "r", "l", ",", "p", "a", "t", "h" >>

\* C9: get_public_resource_dict (called directly or by the view) sends the
\* default selectors exactly when the object came with fields None; a caller's selectors, an empty tuple
\* included, are sent as they are and are left in the object.
C9_DefaultIffNone ==
    op \in {"get_public_resource_dict", "get_context_data"} =>
      LET f == entry[1].fields
          sent == query[1]["fields"][1]
      IN  /\ "fields" \in DOMAIN query[1]
          /\ f = NoneV =>
               /\ sent = DefaultCsv
               /\ params.fields = Some(DefaultFields)
          /\ f # NoneV =>
               /\ params.fields = f
               /\ IF f[1].tag = "tuple"
                  THEN ListsSelectors(sent, f[1].items)
                  ELSE sent = f[1].value

\* the caller gave an empty tuple and the query carries no selector
C9_Witness ==
    /\ op = "get_public_resource_dict"
    /\ entry[1].fields = Some(Tuple(<<>>))
    /\ query[1]["fields"] = Some(<<>>)

TextKeys == {"public_key", "fields", "path"}

\* C10 (as claimed): no key of prepared_dict is bound to None or to an empty
\* value, and a key is present exactly when its attribute is not None.
C10_NoNullNoEmpty ==
    op = "prepared_dict" =>
      /\ \A k \in DOMAIN result[1] : result[1][k] # NoneV
      /\ \A k \in DOMAIN result[1] \cap TextKeys : result[1][k] # Some(<<>>)
      /\ DOMAIN result[1] = {k \in Keys : params[k] # NoneV}

\* C10 (amended): no key of prepared_dict is bound to None, and a key is
\* present exactly when its attribute is not None; an attribute set to an
\* empty value (an empty fields tuple, sent as "", or an empty string) is
\* present and bound to that empty value.
C10_NoNull ==
    op = "prepared_dict" =>
      /\ \A k \in DOMAIN result[1] : result[1][k] # NoneV
      /\ DOMAIN result[1] = {k \in Keys : params[k] # NoneV}
      /\ params.fields = Some(Tuple(<<>>)) => result[1]["fields"] = Some(<<>>)
      /\ \A k \in {"public_key", "path"} :
           params[k] = Some(<<>>) => result[1][k] = Some(<<>>)

\* offset 0 and preview_crop False are set and sent; sort is not set
C10_Witness ==
    /\ op = "prepared_dict"
    /\ params.offset = Some(0)
    /\ params.preview_crop = Some(FALSE)
    /\ params.sort = NoneV
    /\ {"offset", "preview_crop"} \subseteq DOMAIN result[1]
    /\ "sort" \notin DOMAIN result[1]

\* number of download-URL requests among the first k requests of the call
MetaCount(k) == Cardinality({j \in 1..k : net[j].kind = "meta"})

\* the requests so far follow the list: the k-th request belongs to the list
\* entry counted by the download-URL requests up to it, and a content request
\* comes directly after the download-URL request of its entry
InListOrder ==
    \A k \in 1..Len(net) :
      /\ MetaCount(k) \in 1..Len(files_paths)
      /\ net[k].path = files_paths[MetaCount(k)]
      /\ net[k].kind = "content" => (k > 1 /\ net[k - 1].kind = "meta")

\* every list entry before the one being requested has its record in the
\* log, info after the write or error after the failure
EarlierEntriesSettled ==
    /\ MetaCount(Len(net)) <= Len(log) + 1
    /\ \A k \in 1..Len(log) : log[k].i = k

\* C11: the requests of one download_files call follow the list order with
\* no retry: one download-URL request per list entry, then at most one
\* content request for it; the request for the next entry is issued only
\* after the current one was written or had its failure logged; when the
\* call ends every list entry has had exactly one download-URL request.
C11_SequentialTrace ==
    /\ InListOrder
    /\ EarlierEntriesSettled
    /\ pc \in {"returned", "raised"} => MetaCount(Len(net)) = Len(files_paths)

\* what a whole file at local path n can hold: the bytes that were there
\* before, or the complete content fetched for a path that targets n
WholeContents(n) ==
    {Some(OldBytes)} \cup
    {Some(ContentOf(q)) : q \in {x \in Paths : LocalPath(x) = n}}

\* C12: once download_files has ended, no file of a failed path is empty,
\* truncated or partially written: every file on disk is either absent or
\* whole.
C12_NoCorruptFile ==
    pc \in {"returned", "raised"} =>
      /\ \A i \in 1..Len(status) :
           status[i] = "failed" =>
             LET n == LocalPath(files_paths[i])
             IN  disk[n] = NoneV \/ disk[n] \in WholeContents(n)
      /\ \A n \in LocalNames : disk[n] = NoneV \/ disk[n] \in WholeContents(n)

\* C13: whenever download_files is at the open or at the write of a file,
\* the destination directory exists, and a step changes a file only while
\* that directory exists: its creation (which leaves an existing directory
\* alone) comes before every write.
C13_DirectoryBeforeWrite ==
    [][ /\ pc' \in {"open", "write"} => FILES_DIR \in dirs'
        /\ disk' # disk => (FILES_DIR \in dirs /\ FILES_DIR \in dirs')
        /\ (pc = "mkdir" /\ pc' = "open") => dirs' = dirs \cup {FILES_DIR} ]_vars

\* the file of the current path is open for writing inside the directory
C13_Witness ==
    /\ pc = "write"
    /\ FILES_DIR \in dirs
    /\ disk[LocalPath(files_paths[idx])] = Some(<<>>)
    /\ disk[Unrelated] = NoneV

\* the claimed local file of a path: the files directory, a separator and the
\* path without its leading separator
ClaimedFile(p) == FILES_DIR \o <<Sep>> \o Tail(p)

\* C14: every path whose download-URL request and content fetch succeed gets
\* exactly the fetched bytes written to files/<path without leading separator>,
\* for nested paths as well as top-level names: the step after a successful
\* fetch can only fail for an I/O error of the device, never for the shape of
\* the path (an entry fails for a failed request or a device error only), and an entry that ended well holds the fetched bytes.
C14_WritesFetchedBytes ==
    /\ pc = "except" =>
         err \in {"ConnectionError", "JSONDecodeError", "KeyError", "OSError"}
    /\ \A i \in 1..Len(status) :
         (status[i] = "ok" /\ ~LaterSameTarget(i)) =>
             /\ ClaimedFile(files_paths[i]) = LocalPath(files_paths[i])
             /\ disk[LocalPath(files_paths[i])] = Some(ContentOf(files_paths[i]))

\* the attributes of the object other than fields
OtherAttributes == Keys \ {"fields"}

\* a step that runs get_public_resource_dict, directly or from the view
RunsListing(o) == o \in {"get_public_resource_dict", "get_context_data"}

\* C15: get_public_resource_dict changes the caller's object in one way only:
\* fields that was None on entry holds the default selector tuple on exit; the
\* other seven attributes are never changed, an object whose fields was not
\* None is unchanged as a whole, and a second call with the same object sends
\* the same query as the first.
C15_OnlyFieldsStored ==
    [][ /\ RunsListing(op') =>
             /\ \A k \in OtherAttributes : params'[k] = entry'[1][k]
             /\ entry'[1].fields = NoneV => params'.fields = Some(DefaultFields)
             /\ entry'[1].fields # NoneV => params' = entry'[1]
        /\ (op = "get_public_resource_dict" /\ op' = "get_public_resource_dict") =>
             /\ entry'[1] = params
             /\ params' = params
             /\ query' = query ]_vars

\* a second call on an object built without fields: it entered with the
\* stored defaults and left the object as it was
C15_Witness ==
    /\ op = "get_public_resource_dict"
    /\ "fields" \notin DOMAIN kwargs
    /\ "limit" \in DOMAIN kwargs
    /\ entry # NoneV
    /\ entry[1].fields = Some(DefaultFields)
    /\ params = entry[1]

\* the fields entry of the mapping read from the object
SerializedFields == result[1].fields[1]

\* C16: the serialization of fields depends on its shape: a single selector
\* is passed as its full value, leading separator kept, a one-element tuple
\* of the same selector as the value without the leading separator, and the
\* two never give the same string.
C16_ShapeDecidesSerialization ==
    (op = "prepared_dict" /\ params.fields # NoneV) =>
        LET f == params.fields[1]
        IN  /\ f.tag = "single" =>
                 /\ SerializedFields = f.value
                 /\ Head(SerializedFields) = "."
                 /\ SerializedFields # Tail(f.value)
            /\ (f.tag = "tuple" /\ Len(f.items) = 1) =>
                 /\ SerializedFields = Tail(f.items[1])
                 /\ <<".">> \o SerializedFields = f.items[1]
                 /\ SerializedFields # f.items[1]

\* the mapping was read from an object whose fields is one nested selector
C16_Witness ==
    /\ op = "prepared_dict"
    /\ params.fields = Some(Single(EMBEDDED_ITEMS_NAME))
    /\ result[1].fields = Some(EMBEDDED_ITEMS_NAME)

====
